---------------------------- MODULE Spec2Model ----------------------------
(***************************************************************************)
(* Taxi booking application: the TaxiService allocation core               *)
(* (src/service.py), its Taxi and Booking records (src/models.py) and the  *)
(* /reset route that replaces the service (src/app.py).                    *)
(*                                                                         *)
(* Spec      one request at a time: book_taxi, get_taxi_details, /reset.   *)
(* SpecConc  two book_taxi calls and one get_taxi_details call running as  *)
(*           threads on the one shared TaxiService, interleaved between    *)
(*           the statements of book_taxi, add_booking and to_dict.         *)
(***************************************************************************)
EXTENDS Integers, Sequences, FiniteSets, TLC

VARIABLES
    taxis,            \* TaxiService.taxis: the list of Taxi objects
    booking_counter,  \* TaxiService.booking_counter
    op,               \* the operation that ran last
    req,              \* its arguments
    result,           \* what it returned
    pre,              \* taxis and booking_counter as they were before it ran
    pc,               \* SpecConc: each thread's position in its call
    frame             \* SpecConc: each thread's local variables

vars == <<taxis, booking_counter, op, req, result, pre, pc, frame>>

---------------------------------------------------------------------------
(* Bounds and input sets *)

\* book_taxi is called only while fewer than MaxBookings ids have been issued
\* by the current service.
MaxBookings == 3

\* initialize_taxis and reset_taxis are tabulated for the fleet sizes
\* -MaxFleet..MaxFleet
MaxFleet == 5

\* calculate_fare is tabulated for the distances 0..MaxDistance
MaxDistance == 80

\* a rejected request is asked again up to MaxRetryDelay time-units after the
\* first taxi falls free
MaxRetryDelay == 2

\* The requests the callers make.  The well-formed ones: every pair of
\* distinct points among A, B, C, asked for time 0 by customer 1 and for
\* time 2 by customer 2.
Request(c, p, d, t) ==
    [customer_id |-> c, pickup_point |-> p, drop_point |-> d, pickup_time |-> t]

ValidRequests ==
    {Request(IF t = 0 THEN 1 ELSE 2, p, d, t) :
        p \in {"A", "B", "C"}, d \in {"A", "B", "C"}, t \in {0, 2}}
    \ {Request(IF t = 0 THEN 1 ELSE 2, p, p, t) : p \in {"A", "B", "C"}, t \in {0, 2}}

\* The malformed ones: "G" is a point outside A-F.
InvalidRequests ==
    {Request(7, "G", "A", 0), Request(7, "A", "G", 0), Request(7, "B", "B", 2),
     Request(7, "A", "B", -1), Request(7, "G", "G", -1)}

RequestInputs == ValidRequests \cup InvalidRequests

\* The times is_available is asked about
TimeInputs == {0, 2}

\* The fleet sizes /reset is asked for: 0 is refused.
NumTaxisInputs == {0, 1, 2}

---------------------------------------------------------------------------
(* src/service.py: class constants *)

\* faulty variant: the point after F is accepted too
VALID_POINTS_through_G == {"A", "B", "C", "D", "E", "F", "G"}

VALID_POINTS == {"A", "B", "C", "D", "E", "F"}
DISTANCE_PER_POINT == 15
TIME_PER_POINT == 1
BASE_FARE == 100
BASE_KM == 5
RATE_PER_KM == 10

\* the fleet size of the service the application starts with
DEFAULT_NUM_TAXIS == 4

\* Python's ord() on the one-letter point names
ord(c) ==
    CASE c = "A" -> 65 [] c = "B" -> 66 [] c = "C" -> 67 [] c = "D" -> 68
      [] c = "E" -> 69 [] c = "F" -> 70 [] c = "G" -> 71

abs(x) == IF x < 0 THEN -x ELSE x

\* find_nearest_taxi's None
None == 0

---------------------------------------------------------------------------
(* src/models.py *)

Booking(booking_id, customer_id, from_point, to_point, pickup_time, drop_time, amount) ==
    [booking_id |-> booking_id, customer_id |-> customer_id,
     from_point |-> from_point, to_point |-> to_point,
     pickup_time |-> pickup_time, drop_time |-> drop_time, amount |-> amount]

Booking_to_dict(b) ==
    [booking_id |-> b.booking_id, customer_id |-> b.customer_id,
     from |-> b.from_point, to |-> b.to_point,
     pickup_time |-> b.pickup_time, drop_time |-> b.drop_time,
     amount |-> b.amount]

Taxi(taxi_id, initial_location) ==
    [taxi_id |-> taxi_id, current_location |-> initial_location,
     free_time |-> 0, total_earnings |-> 0, bookings |-> <<>>]

\* faulty variants: the comparison turned round; the comparison made strict
is_available_reversed(taxi, pickup_time) == taxi.free_time >= pickup_time

is_available_strict(taxi, pickup_time) == taxi.free_time < pickup_time

is_available(taxi, pickup_time) == taxi.free_time <= pickup_time

\* faulty variants: the fare is not added to the earnings; the trip is put
\* at the front of the history
add_booking_unpaid(taxi, booking, new_location) ==
    [taxi EXCEPT !.bookings = Append(@, booking),
                 !.current_location = new_location,
                 !.free_time = booking.drop_time]

add_booking_prepends(taxi, booking, new_location) ==
    [taxi EXCEPT !.bookings = <<booking>> \o @,
                 !.total_earnings = @ + booking.amount,
                 !.current_location = new_location,
                 !.free_time = booking.drop_time]

\* faulty variant: the taxi is not moved to the drop point
add_booking_stays(taxi, booking, new_location) ==
    [taxi EXCEPT !.bookings = Append(@, booking),
                 !.total_earnings = @ + booking.amount,
                 !.free_time = booking.drop_time]

add_booking(taxi, booking, new_location) ==
    [taxi EXCEPT !.bookings = Append(@, booking),
                 !.total_earnings = @ + booking.amount,
                 !.current_location = new_location,
                 !.free_time = booking.drop_time]

Taxi_to_dict(taxi) ==
    [taxi_id |-> taxi.taxi_id, total_earnings |-> taxi.total_earnings,
     bookings |-> [k \in 1..Len(taxi.bookings) |-> Booking_to_dict(taxi.bookings[k])]]

---------------------------------------------------------------------------
(* src/service.py *)

\* faulty variant: the ids taken from range(num_taxis) without the + 1
initialize_taxis_from_zero(num_taxis) ==
    [i \in 1..(IF num_taxis > 0 THEN num_taxis ELSE 0) |-> Taxi(i - 1, "A")]

initialize_taxis(num_taxis) ==
    [i \in 1..(IF num_taxis > 0 THEN num_taxis ELSE 0) |-> Taxi(i, "A")]

\* faulty variant: the point-steps returned as the distance
calculate_distance_in_steps(pickup, drop) == abs(ord(drop) - ord(pickup))

calculate_distance(pickup, drop) == abs(ord(drop) - ord(pickup)) * DISTANCE_PER_POINT

\* faulty variants: the time scaled like the distance; the abs() left out
calculate_travel_time_in_km(pickup, drop) ==
    abs(ord(drop) - ord(pickup)) * DISTANCE_PER_POINT

calculate_travel_time_signed(pickup, drop) == (ord(drop) - ord(pickup)) * TIME_PER_POINT

calculate_travel_time(pickup, drop) == abs(ord(drop) - ord(pickup)) * TIME_PER_POINT

\* faulty variant: the per-km rate charged on the whole distance
calculate_fare_whole_distance(distance) ==
    IF distance <= BASE_KM
    THEN BASE_FARE
    ELSE BASE_FARE + distance * RATE_PER_KM

calculate_fare(distance) ==
    IF distance <= BASE_KM
    THEN BASE_FARE
    ELSE BASE_FARE + (distance - BASE_KM) * RATE_PER_KM

\* faulty variant: a taxi counts as available only if it can also drive to
\* the pickup point by pickup_time
RECURSIVE available_taxis_after_approach(_, _, _, _)
available_taxis_after_approach(ts, pickup_point, pickup_time, n) ==
    IF n = 0 THEN <<>>
    ELSE LET rest == available_taxis_after_approach(ts, pickup_point, pickup_time, n - 1)
             distance_to_pickup == abs(ord(pickup_point) - ord(ts[n].current_location))
         IN IF ts[n].free_time + distance_to_pickup <= pickup_time
            THEN Append(rest, <<n, distance_to_pickup>>)
            ELSE rest

\* The list find_nearest_taxi builds: for every available taxi, in fleet
\* order, the pair (taxi, distance_to_pickup); a taxi is named by its
\* position in the fleet list.
RECURSIVE available_taxis(_, _, _, _)
available_taxis(ts, pickup_point, pickup_time, n) ==
    IF n = 0 THEN <<>>
    ELSE LET rest == available_taxis(ts, pickup_point, pickup_time, n - 1)
         IN IF is_available(ts[n], pickup_time)
            THEN Append(rest, <<n, abs(ord(pickup_point) - ord(ts[n].current_location))>>)
            ELSE rest

\* faulty variant: the earnings left out of the key
sort_key_distance_only(ts, x) == <<x[2], 0>>

\* key=lambda x: (x[1], x[0].total_earnings)
sort_key(ts, x) == <<x[2], ts[x[1]].total_earnings>>

\* faulty variant: the strict comparison, which puts a later element before
\* an earlier one of equal key
key_lt(a, b) == a[1] < b[1] \/ (a[1] = b[1] /\ a[2] < b[2])

\* Python's tuple comparison a <= b on two-element keys
key_le(a, b) == a[1] < b[1] \/ (a[1] = b[1] /\ a[2] <= b[2])

\* list.sort is stable: x, which followed every element of sorted in the
\* original list, goes after the elements whose key is not greater.
RECURSIVE insert_stable(_, _, _)
insert_stable(ts, x, sorted) ==
    IF sorted = <<>> THEN <<x>>
    ELSE IF key_le(sort_key(ts, Head(sorted)), sort_key(ts, x))
         THEN <<Head(sorted)>> \o insert_stable(ts, x, Tail(sorted))
         ELSE <<x>> \o sorted

RECURSIVE list_sort(_, _)
list_sort(ts, l) ==
    IF l = <<>> THEN <<>>
    ELSE insert_stable(ts, l[Len(l)], list_sort(ts, SubSeq(l, 1, Len(l) - 1)))

find_nearest_taxi(ts, pickup_point, pickup_time) ==
    LET available == available_taxis(ts, pickup_point, pickup_time, Len(ts))
    IN IF available = <<>> THEN None
       ELSE list_sort(ts, available)[1][1]

\* faulty variants: the counter is not advanced; it is advanced by two
next_booking_counter_stuck(counter) == counter

next_booking_counter_by_two(counter) == counter + 2

\* self.booking_counter += 1
next_booking_counter(counter) == counter + 1

\* faulty variant: the id read before the counter was advanced
success_result_stale_id(booking_id, taxi_id, pickup_point, drop_point, pickup_time, drop_time, amount) ==
    [status |-> "success", booking_id |-> booking_id - 1, taxi_id |-> taxi_id,
     pickup_point |-> pickup_point, drop_point |-> drop_point,
     pickup_time |-> pickup_time, drop_time |-> drop_time, amount |-> amount]

\* The dict book_taxi returns for a committed trip
success_result(booking_id, taxi_id, pickup_point, drop_point, pickup_time, drop_time, amount) ==
    [status |-> "success", booking_id |-> booking_id, taxi_id |-> taxi_id,
     pickup_point |-> pickup_point, drop_point |-> drop_point,
     pickup_time |-> pickup_time, drop_time |-> drop_time, amount |-> amount]

\* book_taxi's argument checks: the error dict of the first check that
\* fails, or Passed.
Passed == [status |-> "passed"]

\* faulty variant: the pickup time is not checked
validate_any_time(pickup_point, drop_point, pickup_time) ==
    IF pickup_point \notin VALID_POINTS THEN
        [status |-> "error",
         message |-> "Invalid pickup point: " \o pickup_point \o ". Valid points are A-F."]
    ELSE IF drop_point \notin VALID_POINTS THEN
        [status |-> "error",
         message |-> "Invalid drop point: " \o drop_point \o ". Valid points are A-F."]
    ELSE IF pickup_point = drop_point THEN
        [status |-> "error", message |-> "Pickup and drop points cannot be the same."]
    ELSE Passed

validate(pickup_point, drop_point, pickup_time) ==
    IF pickup_point \notin VALID_POINTS THEN
        [status |-> "error",
         message |-> "Invalid pickup point: " \o pickup_point \o ". Valid points are A-F."]
    ELSE IF drop_point \notin VALID_POINTS THEN
        [status |-> "error",
         message |-> "Invalid drop point: " \o drop_point \o ". Valid points are A-F."]
    ELSE IF pickup_point = drop_point THEN
        [status |-> "error", message |-> "Pickup and drop points cannot be the same."]
    ELSE IF pickup_time < 0 THEN
        [status |-> "error", message |-> "Pickup time cannot be negative."]
    ELSE Passed

rejected_result == [status |-> "rejected", message |-> "No taxi available at the requested time."]

\* faulty variant: every taxi appends to the one bookings list
commit_shared_history(ts, taxi, booking, new_location) ==
    [i \in 1..Len(ts) |->
        IF i = taxi THEN add_booking(ts[i], booking, new_location)
        ELSE [ts[i] EXCEPT !.bookings = Append(@, booking)]]

\* taxi.add_booking(booking, drop_point): the fleet with that one taxi updated
commit(ts, taxi, booking, new_location) ==
    [ts EXCEPT ![taxi] = add_booking(@, booking, new_location)]

\* book_taxi: the service's taxis and booking_counter after the call, and
\* the dict returned.
book_taxi(ts, counter, customer_id, pickup_point, drop_point, pickup_time) ==
    LET same(res) == [taxis |-> ts, booking_counter |-> counter, result |-> res]
        checked == validate(pickup_point, drop_point, pickup_time)
    IN
    IF checked # Passed THEN same(checked)
    ELSE
        LET taxi == find_nearest_taxi(ts, pickup_point, pickup_time) IN
        IF taxi = None THEN same(rejected_result)
        ELSE
            LET distance == calculate_distance(pickup_point, drop_point)
                travel_time == calculate_travel_time(pickup_point, drop_point)
                drop_time == pickup_time + travel_time
                fare == calculate_fare(distance)
                counter1 == next_booking_counter(counter)
                booking == Booking(counter1, customer_id, pickup_point, drop_point,
                                   pickup_time, drop_time, fare)
            IN [taxis |-> commit(ts, taxi, booking, drop_point),
                booking_counter |-> counter1,
                result |-> success_result(counter1, ts[taxi].taxi_id, pickup_point,
                                          drop_point, pickup_time, drop_time, fare)]

get_taxi_details(ts) == [i \in 1..Len(ts) |-> Taxi_to_dict(ts[i])]

---------------------------------------------------------------------------
(* Spec: one request at a time *)

NoRequest == [none |-> TRUE]
Idle == [t \in 1..3 |-> "idle"]
NoFrame == [t \in 1..3 |-> NoRequest]

\* app.py: taxi_service = TaxiService(num_taxis=4)
Init ==
    /\ taxis = initialize_taxis(DEFAULT_NUM_TAXIS)
    /\ booking_counter = 0
    /\ op = "init"
    /\ req = NoRequest
    /\ result = NoRequest
    /\ pre = [taxis |-> <<>>, booking_counter |-> 0]
    /\ pc = Idle
    /\ frame = NoFrame

Snapshot == [taxis |-> taxis, booking_counter |-> booking_counter]

\* TaxiService.book_taxi, called with any arguments
Book ==
    /\ booking_counter < MaxBookings
    /\ \E r \in RequestInputs :
         LET out == book_taxi(taxis, booking_counter, r.customer_id, r.pickup_point,
                              r.drop_point, r.pickup_time) IN
         /\ taxis' = out.taxis
         /\ booking_counter' = out.booking_counter
         /\ result' = out.result
         /\ req' = r
    /\ op' = "book"
    /\ pre' = Snapshot
    /\ UNCHANGED <<pc, frame>>

\* faulty variant: the report empties the histories it has listed
GetTaxiDetails_draining ==
    /\ op' = "taxis"
    /\ req' = NoRequest
    /\ result' = get_taxi_details(taxis)
    /\ pre' = Snapshot
    /\ taxis' = [i \in 1..Len(taxis) |-> [taxis[i] EXCEPT !.bookings = <<>>]]
    /\ UNCHANGED <<booking_counter, pc, frame>>

\* TaxiService.get_taxi_details
GetTaxiDetails ==
    /\ op' = "taxis"
    /\ req' = NoRequest
    /\ result' = get_taxi_details(taxis)
    /\ pre' = Snapshot
    /\ UNCHANGED <<taxis, booking_counter, pc, frame>>

\* Taxi.is_available, asked of every taxi of the fleet for one time
list_available(ts, at_time) == [i \in 1..Len(ts) |-> is_available(ts[i], at_time)]

ListAvailable ==
    /\ \E t \in TimeInputs :
         /\ req' = [at_time |-> t]
         /\ result' = list_available(taxis, t)
    /\ op' = "is_available"
    /\ pre' = Snapshot
    /\ UNCHANGED <<taxis, booking_counter, pc, frame>>

\* faulty variant: the fleet is replaced and the counter kept
reset_taxis_keeps_counter(ts, counter, num_taxis) ==
    IF num_taxis < 1
    THEN [taxis |-> ts, booking_counter |-> counter,
          result |-> [status |-> "error", message |-> "num_taxis must be a positive integer"]]
    ELSE [taxis |-> initialize_taxis(num_taxis), booking_counter |-> counter,
          result |-> [status |-> "success", num_taxis |-> num_taxis]]

\* faulty variant: only negative fleet sizes are refused
reset_taxis_accepts_zero(ts, counter, num_taxis) ==
    IF num_taxis < 0
    THEN [taxis |-> ts, booking_counter |-> counter,
          result |-> [status |-> "error", message |-> "num_taxis must be a positive integer"]]
    ELSE [taxis |-> initialize_taxis(num_taxis), booking_counter |-> 0,
          result |-> [status |-> "success", num_taxis |-> num_taxis]]

\* app.py reset_taxis: a fleet size below 1 is refused, any other replaces
\* the service by TaxiService(num_taxis), whose booking_counter is 0.
reset_taxis(ts, counter, num_taxis) ==
    IF num_taxis < 1
    THEN [taxis |-> ts, booking_counter |-> counter,
          result |-> [status |-> "error", message |-> "num_taxis must be a positive integer"]]
    ELSE [taxis |-> initialize_taxis(num_taxis), booking_counter |-> 0,
          result |-> [status |-> "success", num_taxis |-> num_taxis]]

Reset ==
    /\ \E n \in NumTaxisInputs :
         LET out == reset_taxis(taxis, booking_counter, n) IN
         /\ taxis' = out.taxis
         /\ booking_counter' = out.booking_counter
         /\ result' = out.result
         /\ req' = [num_taxis |-> n]
    /\ op' = "reset"
    /\ pre' = Snapshot
    /\ UNCHANGED <<pc, frame>>

Next == Book \/ GetTaxiDetails \/ ListAvailable \/ Reset

Spec == Init /\ [][Next]_vars

---------------------------------------------------------------------------
(* SpecConc: two book_taxi calls and one get_taxi_details call as threads   *)
(* of the HTTP server, which share the module-level taxi_service and take   *)
(* no lock.  A thread may be suspended between any two statements of        *)
(* book_taxi and add_booking, and between the entries of to_dict's dict.    *)

\* the threads that serve /book
Threads == {1, 2}

\* the thread that serves /taxis
Reporter == 3

\* what the two concurrent callers ask for
ConcRequests ==
    {Request(1, "A", "C", 0), Request(2, "A", "B", 0), Request(2, "C", "A", 2),
     Request(1, "B", "B", 0)}

NoBooking == Booking(0, 0, "", "", 0, 0, 0)

\* book_taxi's local variables
StartFrame(r) ==
    [req |-> r, taxi |-> None, distance |-> 0, travel_time |-> 0, drop_time |-> 0,
     fare |-> 0, loaded |-> 0, booking |-> NoBooking, result |-> NoRequest]

InitConc ==
    /\ taxis = initialize_taxis(DEFAULT_NUM_TAXIS)
    /\ booking_counter = 0
    /\ op = "init"
    /\ req = NoRequest
    /\ result = NoRequest
    /\ pre = [taxis |-> <<>>, booking_counter |-> 0]
    /\ pc = Idle
    /\ frame = NoFrame

Goto(t, label) == pc' = [pc EXCEPT ![t] = label]

\* the call and the argument checks (lines 138-161)
T_Call(t) ==
    /\ pc[t] = "idle"
    /\ \E r \in ConcRequests :
         LET checked == validate(r.pickup_point, r.drop_point, r.pickup_time) IN
         IF checked # Passed
         THEN /\ frame' = [frame EXCEPT ![t] = [StartFrame(r) EXCEPT !.result = checked]]
              /\ Goto(t, "done")
         ELSE /\ frame' = [frame EXCEPT ![t] = StartFrame(r)]
              /\ Goto(t, "find")
    /\ UNCHANGED <<taxis, booking_counter, op, req, result, pre>>

\* taxi = self.find_nearest_taxi(...), the rejection, and the trip details
\* computed from the arguments alone (lines 163-176).  The scan and sort of
\* find_nearest_taxi are taken as one step: the interleavings kept are a
\* subset of those the threads have.
T_Find(t) ==
    /\ pc[t] = "find"
    /\ LET f == frame[t]
           r == f.req
           taxi == find_nearest_taxi(taxis, r.pickup_point, r.pickup_time)
       IN IF taxi = None
          THEN /\ frame' = [frame EXCEPT ![t].result = rejected_result]
               /\ Goto(t, "done")
          ELSE /\ frame' = [frame EXCEPT ![t] =
                     [f EXCEPT !.taxi = taxi,
                               !.distance = calculate_distance(r.pickup_point, r.drop_point),
                               !.travel_time = calculate_travel_time(r.pickup_point, r.drop_point),
                               !.drop_time = r.pickup_time
                                   + calculate_travel_time(r.pickup_point, r.drop_point),
                               !.fare = calculate_fare(
                                   calculate_distance(r.pickup_point, r.drop_point))]]
               /\ Goto(t, "load")
    /\ UNCHANGED <<taxis, booking_counter, op, req, result, pre>>

\* self.booking_counter += 1 reads the attribute ...
T_CounterLoad(t) ==
    /\ pc[t] = "load"
    /\ frame' = [frame EXCEPT ![t].loaded = booking_counter]
    /\ Goto(t, "store")
    /\ UNCHANGED <<taxis, booking_counter, op, req, result, pre>>

\* ... and stores the sum (line 179)
T_CounterStore(t) ==
    /\ pc[t] = "store"
    /\ booking_counter' = next_booking_counter(frame[t].loaded)
    /\ Goto(t, "make")
    /\ UNCHANGED <<taxis, frame, op, req, result, pre>>

\* booking = Booking(booking_id=self.booking_counter, ...) (lines 180-188)
T_MakeBooking(t) ==
    /\ pc[t] = "make"
    /\ LET f == frame[t] IN
       frame' = [frame EXCEPT ![t].booking =
                    Booking(booking_counter, f.req.customer_id, f.req.pickup_point,
                            f.req.drop_point, f.req.pickup_time, f.drop_time, f.fare)]
    /\ Goto(t, "append")
    /\ UNCHANGED <<taxis, booking_counter, op, req, result, pre>>

\* add_booking: self.bookings.append(booking) (models.py line 82)
T_Append(t) ==
    /\ pc[t] = "append"
    /\ taxis' = [taxis EXCEPT ![frame[t].taxi].bookings = Append(@, frame[t].booking)]
    /\ Goto(t, "earn")
    /\ UNCHANGED <<booking_counter, frame, op, req, result, pre>>

\* self.total_earnings += booking.amount (line 83)
T_Earn(t) ==
    /\ pc[t] = "earn"
    /\ taxis' = [taxis EXCEPT ![frame[t].taxi].total_earnings = @ + frame[t].booking.amount]
    /\ Goto(t, "move")
    /\ UNCHANGED <<booking_counter, frame, op, req, result, pre>>

\* self.current_location = new_location (line 84)
T_Move(t) ==
    /\ pc[t] = "move"
    /\ taxis' = [taxis EXCEPT ![frame[t].taxi].current_location = frame[t].req.drop_point]
    /\ Goto(t, "free")
    /\ UNCHANGED <<booking_counter, frame, op, req, result, pre>>

\* self.free_time = booking.drop_time (line 85)
T_Free(t) ==
    /\ pc[t] = "free"
    /\ taxis' = [taxis EXCEPT ![frame[t].taxi].free_time = frame[t].booking.drop_time]
    /\ Goto(t, "return")
    /\ UNCHANGED <<booking_counter, frame, op, req, result, pre>>

\* return {"status": "success", "booking_id": self.booking_counter, ...}
\* (service.py lines 193-202)
T_Return(t) ==
    /\ pc[t] = "return"
    /\ LET f == frame[t] IN
       frame' = [frame EXCEPT ![t].result =
                    success_result(booking_counter, taxis[f.taxi].taxi_id,
                                   f.req.pickup_point, f.req.drop_point,
                                   f.req.pickup_time, f.drop_time, f.fare)]
    /\ Goto(t, "done")
    /\ UNCHANGED <<taxis, booking_counter, op, req, result, pre>>

Thread(t) ==
    \/ T_Call(t) \/ T_Find(t) \/ T_CounterLoad(t) \/ T_CounterStore(t)
    \/ T_MakeBooking(t) \/ T_Append(t) \/ T_Earn(t) \/ T_Move(t) \/ T_Free(t)
    \/ T_Return(t)

\* get_taxi_details is called: the comprehension starts at the first taxi
\* (service.py line 211)
R_Call ==
    /\ pc[Reporter] = "idle"
    /\ frame' = [frame EXCEPT ![Reporter] = [i |-> 1, total_earnings |-> 0, report |-> <<>>]]
    /\ Goto(Reporter, "earnings")
    /\ UNCHANGED <<taxis, booking_counter, op, req, result, pre>>

\* to_dict: "total_earnings": self.total_earnings (models.py line 91)
R_Earnings ==
    /\ pc[Reporter] = "earnings"
    /\ frame' = [frame EXCEPT ![Reporter].total_earnings =
                    taxis[frame[Reporter].i].total_earnings]
    /\ Goto(Reporter, "bookings")
    /\ UNCHANGED <<taxis, booking_counter, op, req, result, pre>>

\* to_dict: "bookings": [booking.to_dict() for booking in self.bookings]
\* (line 92); the dict joins the report and the comprehension moves on.  The
\* walk over self.bookings is taken as one step.
R_Bookings ==
    /\ pc[Reporter] = "bookings"
    /\ LET f == frame[Reporter]
           taxi == taxis[f.i]
           dict == [taxi_id |-> taxi.taxi_id, total_earnings |-> f.total_earnings,
                    bookings |-> [k \in 1..Len(taxi.bookings) |->
                                     Booking_to_dict(taxi.bookings[k])]]
       IN /\ frame' = [frame EXCEPT ![Reporter] =
                          [f EXCEPT !.i = @ + 1, !.report = Append(@, dict)]]
          /\ IF f.i < Len(taxis) THEN Goto(Reporter, "earnings")
                                ELSE Goto(Reporter, "done")
    /\ UNCHANGED <<taxis, booking_counter, op, req, result, pre>>

Report == R_Call \/ R_Earnings \/ R_Bookings

NextConc == (\E t \in Threads : Thread(t)) \/ Report

SpecConc == InitConc /\ [][NextConc]_vars

---------------------------------------------------------------------------
(* Properties *)

\* The six points and their positions, as the design document gives them
SixPoints == {"A", "B", "C", "D", "E", "F"}
Pos(p) == CASE p = "A" -> 0 [] p = "B" -> 1 [] p = "C" -> 2
            [] p = "D" -> 3 [] p = "E" -> 4 [] p = "F" -> 5

WellFormed(r) ==
    /\ r.pickup_point \in SixPoints
    /\ r.drop_point \in SixPoints
    /\ r.pickup_point # r.drop_point
    /\ r.pickup_time >= 0

\* the last operation was a book_taxi call that committed a trip
Booked == op = "book" /\ result.status = "success"

\* the position in the fleet list of the taxi with the given id
TaxiAt(ts, id) == CHOOSE i \in 1..Len(ts) : ts[i].taxi_id = id

Last(seq) == seq[Len(seq)]

\* point-steps between a taxi and a pickup point
Approach(taxi, p) ==
    IF Pos(p) >= Pos(taxi.current_location)
    THEN Pos(p) - Pos(taxi.current_location)
    ELSE Pos(taxi.current_location) - Pos(p)

NoOverlap(ts) ==
    \A i \in 1..Len(ts) : \A k \in 1..(Len(ts[i].bookings) - 1) :
        ts[i].bookings[k + 1].pickup_time >= ts[i].bookings[k].drop_time

\* C1: in every state reached by book_taxi calls, consecutive trips i, i+1 of
\* one taxi satisfy pickup_time(i+1) >= drop_time(i).
C1_NoOverlappingTrips == NoOverlap(taxis)

\* a taxi that drove two trips, the second picked up the moment the first ended
C1_Witness ==
    \E i \in 1..Len(taxis) :
        /\ Len(taxis[i].bookings) >= 2
        /\ taxis[i].bookings[2].pickup_time = taxis[i].bookings[1].drop_time

\* C2: with two book_taxi calls running concurrently, selection and commit of
\* one are atomic with respect to the other: the two calls never both commit
\* to the same taxi trips that overlap.
C2_SelectionAndCommitAtomic ==
    (pc[1] = "done" /\ pc[2] = "done"
        /\ frame[1].result.status = "success" /\ frame[2].result.status = "success"
        /\ frame[1].taxi = frame[2].taxi)
    => NoOverlap(taxis)

\* C3: the taxi a successful book_taxi assigns minimises (approach distance,
\* total_earnings) lexicographically over the taxis available at pickup_time:
\* no available taxi is strictly closer, no equally close available taxi has
\* earned strictly less.
C3_WinnerMinimisesKey ==
    Booked =>
        LET ts == pre.taxis
            w == TaxiAt(ts, result.taxi_id)
            p == req.pickup_point
        IN \A j \in 1..Len(ts) :
            ts[j].free_time <= req.pickup_time =>
                /\ Approach(ts[j], p) >= Approach(ts[w], p)
                /\ Approach(ts[j], p) = Approach(ts[w], p)
                     => ts[j].total_earnings >= ts[w].total_earnings

\* the winner stood behind, in the fleet list, an available taxi as close as
\* itself that had earned more; and another available taxi was farther away
C3_Witness ==
    /\ Booked
    /\ LET ts == pre.taxis
           w == TaxiAt(ts, result.taxi_id)
           p == req.pickup_point
       IN /\ \E j \in 1..(w - 1) :
                /\ ts[j].free_time <= req.pickup_time
                /\ Approach(ts[j], p) = Approach(ts[w], p)
                /\ ts[j].total_earnings > ts[w].total_earnings
          /\ \E j \in 1..Len(ts) :
                /\ ts[j].free_time <= req.pickup_time
                /\ Approach(ts[j], p) > Approach(ts[w], p)

\* the fleet of 4 after its first booking, A to C at time 0
AfterFirstTrip(ts) ==
    /\ Len(ts) = 4
    /\ ts[1].current_location = "C" /\ ts[1].free_time = 2
    /\ \A j \in 2..4 : ts[j].current_location = "A" /\ ts[j].free_time = 0
                        /\ ts[j].bookings = <<>>

\* C4: book_taxi never assigns a taxi whose free_time is greater than the
\* requested pickup_time; on the fleet of 4 after A to C at time 0, the request
\* A to B at time 0 goes to another taxi, one that is still idle.
C4_WinnerIsAvailable ==
    Booked =>
        LET w == TaxiAt(pre.taxis, result.taxi_id) IN
        /\ pre.taxis[w].free_time <= req.pickup_time
        /\ (AfterFirstTrip(pre.taxis) /\ req.pickup_point = "A"
              /\ req.drop_point = "B" /\ req.pickup_time = 0)
           => (w # 1 /\ pre.taxis[w].bookings = <<>>)

\* the second request of the scenario was served while taxi 1 was busy
C4_Witness ==
    /\ Booked
    /\ AfterFirstTrip(pre.taxis)
    /\ req.pickup_point = "A" /\ req.drop_point = "B" /\ req.pickup_time = 0
    /\ pre.taxis[1].free_time > req.pickup_time

\* C5: a well-formed request is rejected, with a reason, exactly when every
\* taxi has free_time > pickup_time; a rejection changes no taxi and does not
\* advance the booking counter.
C5_RejectedIffNoneAvailable ==
    (op = "book" /\ WellFormed(req)) =>
        /\ (result.status = "rejected")
             <=> (\A j \in 1..Len(pre.taxis) : pre.taxis[j].free_time > req.pickup_time)
        /\ result.status = "rejected" =>
             /\ result.message # ""
             /\ taxis = pre.taxis
             /\ booking_counter = pre.booking_counter

\* a rejection while some taxi would have been free at a later time
C5_Witness ==
    /\ op = "book" /\ WellFormed(req)
    /\ result.status = "rejected"
    /\ \E j \in 1..Len(taxis) : taxis[j].free_time > req.pickup_time

\* C6: a request whose pickup or drop point is not one of A..F, whose pickup
\* equals its drop, or whose pickup_time is negative gets status 'error' with
\* a non-empty message, and changes neither any taxi nor the booking counter.
C6_InvalidLeavesState ==
    (op = "book" /\ ~WellFormed(req)) =>
        /\ result.status = "error"
        /\ result.message # ""
        /\ taxis = pre.taxis
        /\ booking_counter = pre.booking_counter

\* a request outside A..F refused by a service that holds trips already
C6_Witness ==
    /\ op = "book" /\ req.pickup_point \notin SixPoints
    /\ result.status = "error"
    /\ booking_counter > 0

\* C7: right after a successful book_taxi the assigned taxi's free_time is
\* the new trip's drop_time and its current_location the trip's drop point.
C7_CommitMovesTaxi ==
    Booked =>
        LET taxi == taxis[TaxiAt(taxis, result.taxi_id)]
            trip == Last(taxi.bookings)
        IN /\ trip.booking_id = result.booking_id
           /\ taxi.free_time = trip.drop_time
           /\ taxi.current_location = trip.to_point
           /\ trip.to_point = req.drop_point

\* the assigned taxi was away from A and ends somewhere else again
C7_Witness ==
    /\ Booked
    /\ LET w == TaxiAt(taxis, result.taxi_id) IN
       /\ pre.taxis[w].current_location # "A"
       /\ taxis[w].current_location # pre.taxis[w].current_location
       /\ taxis[w].free_time > pre.taxis[w].free_time

\* every trip of the fleet, as <<position of the taxi, position in its history>>
Trips(ts) == UNION {{<<i, k>> : k \in 1..Len(ts[i].bookings)} : i \in 1..Len(ts)}

\* C8: within one service the ids of successful bookings strictly increase in
\* booking order, whichever taxi is assigned, and no two trips of the fleet
\* share an id.
C8_IdsStrictlyIncrease ==
    /\ \A x, y \in Trips(taxis) :
          x # y => taxis[x[1]].bookings[x[2]].booking_id # taxis[y[1]].bookings[y[2]].booking_id
    /\ Booked =>
          /\ \A x \in Trips(pre.taxis) :
                pre.taxis[x[1]].bookings[x[2]].booking_id < result.booking_id
          /\ Last(taxis[TaxiAt(taxis, result.taxi_id)].bookings).booking_id = result.booking_id

\* a booking made when two different taxis held earlier trips
C8_Witness ==
    /\ Booked
    /\ \E x, y \in Trips(pre.taxis) : x[1] # y[1]

\* C9 as claimed: a reset never takes the counter back, so that every id
\* issued after it (they start at booking_counter + 1) is greater than every
\* id issued before it (they end at the old booking_counter).
C9_IdsNotReusedAfterReset ==
    (op = "reset" /\ result.status = "success") =>
        booking_counter >= pre.booking_counter

\* C9 as the code has it: /reset replaces the service by a new one that holds
\* no trip and whose counter is 0, so the next id issued is 1 again.
C9_ResetRestartsIds ==
    /\ (op = "reset" /\ result.status = "success") =>
          /\ booking_counter = 0
          /\ \A i \in 1..Len(taxis) : taxis[i].bookings = <<>>
    /\ (Booked /\ pre.booking_counter = 0) => result.booking_id = 1

\* a reset of a service that had issued ids
C9_Witness ==
    /\ op = "reset" /\ result.status = "success"
    /\ pre.booking_counter > 0
    /\ booking_counter = 0

\* the fare of the design document
Fare(d) == IF d <= 5 THEN 100 ELSE 100 + (d - 5) * 10

\* calculate_fare on the distances 0..MaxDistance
FareTable ==
    /\ \A d \in 0..MaxDistance : calculate_fare(d) = Fare(d)
    /\ calculate_fare(5) = 100 /\ calculate_fare(6) = 110
    /\ \A d \in 0..(MaxDistance - 1) : calculate_fare(d) <= calculate_fare(d + 1)

\* C10: calculate_fare(d) is 100 for d <= 5 and 100 + (d - 5) * 10 above, for
\* every distance d >= 0 (so fare(5) = 100, fare(6) = 110, and the fare never
\* falls as d grows); the amount of a committed trip is the fare of
\* |pos(drop) - pos(pickup)| * 15.
C10_FareFormula ==
    /\ FareTable
    /\ \A x \in Trips(taxis) :
          LET trip == taxis[x[1]].bookings[x[2]]
              steps == IF Pos(trip.to_point) >= Pos(trip.from_point)
                       THEN Pos(trip.to_point) - Pos(trip.from_point)
                       ELSE Pos(trip.from_point) - Pos(trip.to_point)
          IN trip.amount = Fare(steps * 15)

\* the fleet holds a one-step trip at 200 and a two-step trip at 350
C10_Witness ==
    /\ \E x \in Trips(taxis) :
          LET trip == taxis[x[1]].bookings[x[2]]
          IN trip.from_point = "A" /\ trip.to_point = "C" /\ trip.amount = 350
    /\ \E x \in Trips(taxis) :
          LET trip == taxis[x[1]].bookings[x[2]]
          IN trip.from_point = "C" /\ trip.to_point = "B" /\ trip.amount = 200

\* point-steps between two points
Steps(p, d) == IF Pos(d) >= Pos(p) THEN Pos(d) - Pos(p) ELSE Pos(p) - Pos(d)

\* C11: every trip in a taxi's history lasts exactly |pos(to) - pos(from)|
\* time-units, and the trip a booking records starts at the pickup_time asked
\* for.
C11_TripTiming ==
    /\ \A x \in Trips(taxis) :
          LET trip == taxis[x[1]].bookings[x[2]]
          IN trip.drop_time - trip.pickup_time = Steps(trip.from_point, trip.to_point)
    /\ Booked =>
          Last(taxis[TaxiAt(taxis, result.taxi_id)].bookings).pickup_time = req.pickup_time

\* a two-step trip asked for time 2 was recorded from 2 to 4
C11_Witness ==
    /\ Booked /\ req.pickup_time = 2
    /\ LET trip == Last(taxis[TaxiAt(taxis, result.taxi_id)].bookings)
       IN trip.pickup_time = 2 /\ trip.drop_time = 4

\* a taxi as it leaves the constructor
FreshTaxi(i) ==
    [taxi_id |-> i, current_location |-> "A", free_time |-> 0,
     total_earnings |-> 0, bookings |-> <<>>]

FreshFleet(n) == [i \in 1..n |-> FreshTaxi(i)]

\* initialize_taxis on the fleet sizes 1..MaxFleet
FleetTable == \A n \in 1..MaxFleet : initialize_taxis(n) = FreshFleet(n)

\* C12: initialising the fleet with n >= 1 gives exactly n taxis, ids 1..n,
\* each at A with free_time 0, earnings 0 and no trips, and nothing of the
\* fleet before remains.
C12_FreshFleet ==
    /\ FleetTable
    /\ op = "init" => taxis = FreshFleet(4)
    /\ (op = "reset" /\ result.status = "success") =>
          (req.num_taxis >= 1 /\ taxis = FreshFleet(req.num_taxis))

\* a fleet that held trips was replaced by a fleet of another size
C12_Witness ==
    /\ op = "reset" /\ result.status = "success"
    /\ Len(pre.taxis) # Len(taxis)
    /\ \E i \in 1..Len(pre.taxis) : pre.taxis[i].bookings # <<>>

ReportOf(taxi) ==
    [taxi_id |-> taxi.taxi_id, total_earnings |-> taxi.total_earnings,
     bookings |-> [k \in 1..Len(taxi.bookings) |->
        [booking_id |-> taxi.bookings[k].booking_id,
         customer_id |-> taxi.bookings[k].customer_id,
         from |-> taxi.bookings[k].from_point, to |-> taxi.bookings[k].to_point,
         pickup_time |-> taxi.bookings[k].pickup_time,
         drop_time |-> taxi.bookings[k].drop_time,
         amount |-> taxi.bookings[k].amount]]]

\* C15: is_available and get_taxi_details change nothing of the fleet, and
\* what they return is fixed by the fleet they read: called again with no
\* booking or reset in between they return the same.
C15_ReadsChangeNothing ==
    /\ op \in {"taxis", "is_available"} =>
          (taxis = pre.taxis /\ booking_counter = pre.booking_counter)
    /\ op = "taxis" =>
          result = [i \in 1..Len(pre.taxis) |-> ReportOf(pre.taxis[i])]
    /\ op = "is_available" =>
          result = [i \in 1..Len(pre.taxis) |-> pre.taxis[i].free_time <= req.at_time]

\* a report of a fleet in which two taxis hold trips
C15_Witness ==
    /\ op = "taxis"
    /\ \E i, j \in 1..Len(taxis) :
          i # j /\ result[i].bookings # <<>> /\ result[j].bookings # <<>>

\* the fleet and counter of the service the application starts with
FreshService == [taxis |-> FreshFleet(4), booking_counter |-> 0]

\* C16: on a fresh fleet of 4 the request (customer 1, A to C, time 0)
\* succeeds with travel time 2, distance 30, drop_time 2, amount 350 and
\* booking id 1.
C16_FirstBookingScenario ==
    (op = "book" /\ pre = FreshService /\ req = Request(1, "A", "C", 0)) =>
        /\ result.status = "success"
        /\ result.booking_id = 1
        /\ result.drop_time = 2
        /\ result.amount = 350
        /\ calculate_travel_time("A", "C") = 2
        /\ calculate_distance("A", "C") = 30

\* the scenario's request was served by the fresh fleet
C16_Witness ==
    /\ op = "book" /\ pre = FreshService /\ req = Request(1, "A", "C", 0)
    /\ result.status = "success"
    /\ Len(taxis[TaxiAt(taxis, result.taxi_id)].bookings) = 1

\* C17: a successful result describes the trip that was committed: its
\* booking_id, points, times and amount are those of the last trip of the
\* taxi it names, which is new and carries the request's customer_id.
C17_ResultDescribesTrip ==
    Booked =>
        LET w == TaxiAt(taxis, result.taxi_id)
            trip == Last(taxis[w].bookings)
        IN /\ Len(taxis[w].bookings) = Len(pre.taxis[w].bookings) + 1
           /\ trip.booking_id = result.booking_id
           /\ trip.from_point = result.pickup_point
           /\ trip.to_point = result.drop_point
           /\ trip.pickup_time = result.pickup_time
           /\ trip.drop_time = result.drop_time
           /\ trip.amount = result.amount
           /\ trip.customer_id = req.customer_id

\* customer 2 was given a taxi other than the first, as its second trip
C17_Witness ==
    /\ Booked /\ req.customer_id = 2
    /\ result.taxi_id # 1
    /\ Len(taxis[TaxiAt(taxis, result.taxi_id)].bookings) = 2

\* C18: add_booking checks availability itself: a thread that reaches it
\* with a taxi whose free_time is greater than the trip's pickup_time does
\* not change that taxi.
C18_CommitRechecksAvailability ==
    [][\A t \in Threads :
          (pc[t] = "append" /\ pc'[t] # "append"
              /\ taxis[frame[t].taxi].free_time > frame[t].booking.pickup_time)
          => taxis'[frame[t].taxi] = taxis[frame[t].taxi]]_vars

\* C19: a successful booking changes the assigned taxi and no other, and
\* keeps the number of taxis and their ids; a refused booking, a report, an
\* availability query and a refused reset change no taxi.
C19_OnlyWinnerChanges ==
    /\ Booked =>
          LET w == TaxiAt(pre.taxis, result.taxi_id) IN
          /\ Len(taxis) = Len(pre.taxis)
          /\ \A i \in 1..Len(taxis) :
                /\ taxis[i].taxi_id = pre.taxis[i].taxi_id
                /\ i # w => taxis[i] = pre.taxis[i]
          /\ taxis[w] # pre.taxis[w]
    /\ (\/ op = "book" /\ result.status # "success"
        \/ op \in {"taxis", "is_available"}
        \/ op = "reset" /\ result.status # "success")
       => taxis = pre.taxis

\* a booking that left alone another taxi holding a trip
C19_Witness ==
    /\ Booked
    /\ \E i \in 1..Len(taxis) :
          /\ taxis[i].taxi_id # result.taxi_id
          /\ taxis[i].bookings # <<>>
          /\ taxis[i] = pre.taxis[i]

\* C20: no booking lowers a taxi's free_time, and a taxi that has made N
\* trips stands at the drop point of its N-th trip.
C20_FreeTimeNeverDecreases ==
    /\ op = "book" =>
          \A i \in 1..Len(taxis) : taxis[i].free_time >= pre.taxis[i].free_time
    /\ \A i \in 1..Len(taxis) :
          taxis[i].bookings # <<>> =>
              taxis[i].current_location = Last(taxis[i].bookings).to_point

\* a taxi's second trip ended later than its first, at another point
C20_Witness ==
    /\ Booked
    /\ LET w == TaxiAt(taxis, result.taxi_id) IN
       /\ Len(taxis[w].bookings) = 2
       /\ taxis[w].free_time > pre.taxis[w].free_time
       /\ taxis[w].bookings[1].to_point # taxis[w].bookings[2].to_point

\* the sum of the amounts of a list of trips
RECURSIVE SumAmounts(_)
SumAmounts(trips) ==
    IF trips = <<>> THEN 0
    ELSE trips[Len(trips)].amount + SumAmounts(SubSeq(trips, 1, Len(trips) - 1))

\* C21: a report made by get_taxi_details while book_taxi calls run in other
\* threads shows no partial commit: for each taxi listed, total_earnings is
\* the sum of the amounts of the bookings listed with it.
C21_ReportShowsNoPartialCommit ==
    pc[Reporter] = "done" =>
        \A k \in 1..Len(frame[Reporter].report) :
            frame[Reporter].report[k].total_earnings
                = SumAmounts(frame[Reporter].report[k].bookings)

\* C22: two concurrent book_taxi calls that both succeed are given different
\* booking ids, and the id each is given is the id of the trip it committed.
C22_ConcurrentIdsDistinct ==
    (pc[1] = "done" /\ pc[2] = "done"
        /\ frame[1].result.status = "success" /\ frame[2].result.status = "success")
    => /\ frame[1].result.booking_id # frame[2].result.booking_id
       /\ \A t \in Threads : frame[t].result.booking_id = frame[t].booking.booking_id

\* the taxis of a fleet that are free at a time
Available(ts, t) == {j \in 1..Len(ts) : ts[j].free_time <= t}

\* C23: a book_taxi call ends in exactly one of error, rejected and success;
\* error exactly for a malformed request, success exactly for a well-formed
\* one with some taxi free at pickup_time; a success takes one booking id and
\* adds one trip to one taxi, the other outcomes take no id and add no trip.
C23_SinglePassThreeOutcomes ==
    op = "book" =>
        LET changed == {i \in 1..Len(taxis) : taxis[i] # pre.taxis[i]} IN
        /\ result.status \in {"error", "rejected", "success"}
        /\ (result.status = "error") <=> ~WellFormed(req)
        /\ (result.status = "success")
             <=> (WellFormed(req) /\ Available(pre.taxis, req.pickup_time) # {})
        /\ Len(taxis) = Len(pre.taxis)
        /\ IF result.status = "success"
           THEN /\ booking_counter = pre.booking_counter + 1
                /\ Cardinality(changed) = 1
                /\ \A i \in changed :
                      Len(taxis[i].bookings) = Len(pre.taxis[i].bookings) + 1
           ELSE /\ booking_counter = pre.booking_counter
                /\ changed = {}

\* a request turned down by a service that had committed trips before
C23_Witness ==
    /\ op = "book" /\ result.status = "rejected"
    /\ booking_counter > 0
    /\ taxis = pre.taxis

\* the earliest free_time of a fleet
MinFreeTime(ts) ==
    CHOOSE m \in {ts[j].free_time : j \in 1..Len(ts)} :
        \A j \in 1..Len(ts) : ts[j].free_time >= m

\* C24: after a well-formed request was rejected by a fleet that has taxis,
\* the same pickup and drop asked for any time from the fleet's earliest
\* free_time on, with no booking made in between, is assigned a taxi.
C24_RejectedRetrySucceeds ==
    (op = "book" /\ WellFormed(req) /\ result.status = "rejected" /\ Len(taxis) >= 1) =>
        \A t \in MinFreeTime(taxis)..(MinFreeTime(taxis) + MaxRetryDelay) :
            LET out == book_taxi(taxis, booking_counter, req.customer_id,
                                 req.pickup_point, req.drop_point, t)
            IN /\ out.result.status = "success"
               /\ out.result.pickup_time = t
               /\ out.booking_counter = booking_counter + 1

\* a request rejected at a time before any taxi is free, which is served the
\* moment the first taxi falls free
C24_Witness ==
    /\ op = "book" /\ WellFormed(req) /\ result.status = "rejected"
    /\ MinFreeTime(taxis) > req.pickup_time
    /\ book_taxi(taxis, booking_counter, req.customer_id, req.pickup_point,
                 req.drop_point, MinFreeTime(taxis)).result.status = "success"

\* C25: every taxi's total_earnings is the sum of the amounts of the trips in
\* its history (0 without trips, never negative), and a successful booking
\* raises the assigned taxi's total_earnings by the amount of the new trip.
C25_EarningsAreSumOfAmounts ==
    /\ \A i \in 1..Len(taxis) :
          /\ taxis[i].total_earnings = SumAmounts(taxis[i].bookings)
          /\ taxis[i].total_earnings >= 0
          /\ taxis[i].bookings = <<>> => taxis[i].total_earnings = 0
    /\ Booked =>
          LET w == TaxiAt(taxis, result.taxi_id) IN
          /\ taxis[w].total_earnings = pre.taxis[w].total_earnings + result.amount
          /\ Last(taxis[w].bookings).amount = result.amount

\* a taxi that had earned from one trip earned from a second
C25_Witness ==
    /\ Booked
    /\ LET w == TaxiAt(taxis, result.taxi_id) IN
       /\ pre.taxis[w].total_earnings > 0
       /\ taxis[w].total_earnings > pre.taxis[w].total_earnings
       /\ \E i \in 1..Len(taxis) : taxis[i].total_earnings = 0

\* C26: a booking keeps every history as a prefix of what it becomes; a
\* successful one adds exactly the new trip at the end of the assigned
\* taxi's history; and the booking ids of one history strictly increase.
C26_HistoryAppendOnly ==
    /\ op = "book" =>
          \A i \in 1..Len(taxis) :
              /\ Len(taxis[i].bookings) >= Len(pre.taxis[i].bookings)
              /\ SubSeq(taxis[i].bookings, 1, Len(pre.taxis[i].bookings))
                    = pre.taxis[i].bookings
    /\ Booked =>
          LET w == TaxiAt(taxis, result.taxi_id) IN
          /\ Len(taxis[w].bookings) = Len(pre.taxis[w].bookings) + 1
          /\ Last(taxis[w].bookings).booking_id = result.booking_id
    /\ \A i \in 1..Len(taxis) : \A k \in 1..(Len(taxis[i].bookings) - 1) :
          taxis[i].bookings[k].booking_id < taxis[i].bookings[k + 1].booking_id

\* a taxi took its second trip after another taxi had taken one in between
C26_Witness ==
    /\ Booked
    /\ LET w == TaxiAt(taxis, result.taxi_id) IN
       /\ Len(taxis[w].bookings) = 2
       /\ taxis[w].bookings[1].booking_id + 1 < taxis[w].bookings[2].booking_id

\* the booking id of a trip of the fleet
IdOf(ts, x) == ts[x[1]].bookings[x[2]].booking_id

\* C27: every booking id the service has issued is found exactly once in the
\* histories of its taxis, and the histories hold as many trips as the
\* booking counter says.
C27_EachTripInOneTaxi ==
    /\ \A id \in 1..booking_counter :
          Cardinality({x \in Trips(taxis) : IdOf(taxis, x) = id}) = 1
    /\ Cardinality(Trips(taxis)) = booking_counter

\* three trips spread over three taxis
C27_Witness ==
    /\ booking_counter = 3
    /\ Cardinality({i \in 1..Len(taxis) : taxis[i].bookings # <<>>}) = 3

\* C28: the ids held by the fleet are exactly 1..booking_counter; the k-th
\* successful booking of a service is given id k; a refused request leaves
\* the counter as it was.
C28_IdsGapFree ==
    /\ {IdOf(taxis, x) : x \in Trips(taxis)} = 1..booking_counter
    /\ Booked => result.booking_id = Cardinality(Trips(pre.taxis)) + 1
    /\ (op = "book" /\ result.status # "success") =>
          booking_counter = pre.booking_counter

\* the third successful booking of a service
C28_Witness ==
    /\ Booked
    /\ Cardinality(Trips(pre.taxis)) = 2
    /\ result.booking_id = 3

\* C29: the fleet list is in id order, and among the available taxis that
\* tie with the assigned one on approach distance and total_earnings none
\* has a lower taxi id.
C29_FullTieLowestId ==
    /\ \A i \in 1..Len(taxis) : taxis[i].taxi_id = i
    /\ Booked =>
          LET ts == pre.taxis
              w == TaxiAt(ts, result.taxi_id)
              p == req.pickup_point
          IN \A j \in 1..Len(ts) :
                (/\ ts[j].free_time <= req.pickup_time
                 /\ Approach(ts[j], p) = Approach(ts[w], p)
                 /\ ts[j].total_earnings = ts[w].total_earnings)
                => ts[j].taxi_id >= result.taxi_id

\* taxi 2 won a full tie with taxis 3 and 4 while taxi 1 was busy
C29_Witness ==
    /\ Booked /\ result.taxi_id = 2
    /\ LET ts == pre.taxis
           p == req.pickup_point
       IN /\ Len(ts) = 4
          /\ ts[1].free_time > req.pickup_time
          /\ \A j \in 3..4 :
                /\ ts[j].free_time <= req.pickup_time
                /\ Approach(ts[j], p) = Approach(ts[2], p)
                /\ ts[j].total_earnings = ts[2].total_earnings

\* C30: a well-formed request is assigned whenever some taxi has
\* free_time <= pickup_time, however far that taxi stands from the pickup
\* point (the fresh fleet at A serves a pickup at F at time 0), and the trip
\* recorded starts at the pickup_time asked for and ends one time-unit per
\* point-step later.
C30_ApproachLegIgnored ==
    /\ op = "init" =>
          LET out == book_taxi(taxis, booking_counter, 1, "F", "E", 0) IN
          /\ out.result.status = "success"
          /\ out.result.taxi_id = 1
          /\ out.result.pickup_time = 0
          /\ out.result.drop_time = 1
    /\ (op = "book" /\ WellFormed(req) /\ Available(pre.taxis, req.pickup_time) # {})
          => Booked
    /\ Booked =>
          LET trip == Last(taxis[TaxiAt(taxis, result.taxi_id)].bookings) IN
          /\ trip.pickup_time = req.pickup_time
          /\ trip.drop_time = req.pickup_time + Steps(req.pickup_point, req.drop_point)

\* the assigned taxi stood farther from the pickup point than the time
\* between its free_time and the pickup_time allows
C30_Witness ==
    /\ Booked
    /\ LET w == TaxiAt(pre.taxis, result.taxi_id) IN
       /\ pre.taxis[w].bookings # <<>>
       /\ Approach(pre.taxis[w], req.pickup_point)
             > req.pickup_time - pre.taxis[w].free_time
       /\ Last(taxis[w].bookings).pickup_time = req.pickup_time

===========================================================================
